---- MODULE Spec2Model ----
(***************************************************************************)
(* The export pipeline of leanplum_data_export: the command line entry,    *)
(* the streaming exporter (S3 -> CSV -> GCS -> BigQuery) and the           *)
(* historical exporter (vendor export job -> GCS -> BigQuery), with the    *)
(* loader steps of the base exporter.  One export run is a sequence of     *)
(* steps; a run can be killed between any two steps, and runs for the one  *)
(* modelled date follow each other.                                        *)
(***************************************************************************)
EXTENDS Integers, Sequences, FiniteSets, TLC

(* ---------------------------------------------------------------- bounds *)

\* number of export runs (command line invocations) for the date
MaxRuns == 2
\* number of status polls of one historical run that find the job unfinished
MaxPolls == 1
\* number of keys in one page of the source bucket's listing
StorePageSize == 2

(* ------------------------------------------------------------- constants *)

DATA_TYPES ==
    <<"eventparameters", "events", "experiments", "sessions", "states", "userattributes">>

FINISHED_STATE == "FINISHED"

\* the record types that have a <type>.schema.json under SCHEMA_DIR
SchemaTypes ==
    {"eventparameters", "events", "experiments", "sessions", "states", "userattributes"}

\* the object-store directory of the import markers of a date
LedgerDir == "imported"

(* ------------------------------------------------------------ the inputs *)

\* S3 keys: <prefix>/<date>/<name>, the name given as its "-"-separated parts
KM == [id |-> "km", pfx |-> "firefox", date |-> "20200601",
       name |-> <<"export", "1", "abc", "manifest">>]
K1 == [id |-> "k1", pfx |-> "firefox", date |-> "20200601",
       name |-> <<"export", "1", "abc", "output", "0">>]
K2 == [id |-> "k2", pfx |-> "firefox", date |-> "20200601",
       name |-> <<"export", "2", "dsaf", "output", "0">>]
K3 == [id |-> "k3", pfx |-> "firefox", date |-> "20200601",
       name |-> <<"export", "2", "abc", "output", "0">>]
KD == [id |-> "kd", pfx |-> "firefox", date |-> "20200602",
       name |-> <<"export", "1", "abc", "output", "0">>]

KN == [id |-> "kn", pfx |-> "firefox", date |-> "20200601", name |-> <<"1">>]
KP == [id |-> "kp", pfx |-> "firefox2", date |-> "20200601",
       name |-> <<"export", "1", "abc", "output", "0">>]

\* the keys in the order the object store lists them (by key)
AllKeys == <<KN, KM, K1, K3, K2, KD, KP>>
KeySet == {AllKeys[n] : n \in 1..Len(AllKeys)}

Prefix == "firefox"
Date == "20200601"
Digits == {"0", "1", "2"}

\* File URLs of the vendor's export job: export-<..>-output<datatype>-<index>
U1 == [id |-> "u1", wellformed |-> TRUE, datatype |-> "sessions", index |-> "0"]
U2 == [id |-> "u2", wellformed |-> TRUE, datatype |-> "events", index |-> "0"]
U3 == [id |-> "u3", wellformed |-> TRUE, datatype |-> "newtype", index |-> "0"]
U4 == [id |-> "u4", wellformed |-> FALSE, datatype |-> "", index |-> ""]

AllUris == <<U1, U2, U3, U4>>
UriSet == {AllUris[n] : n \in 1..Len(AllUris)}

\* every record type a run can meet, and the origin of every staged file
AllTypes == SchemaTypes \cup {u.datatype : u \in {v \in UriSet : v.wellformed}}
Origins == {k.id : k \in KeySet} \cup {u.id : u \in UriSet}

NoRows == [o \in Origins |-> 0]

VARIABLES
    unit,         \* the call recorded last (a function called directly, or a run's
                  \* transform_data_file or status request): name, arguments, result
    streaming,    \* --streaming / --no-streaming of every run
    s3,           \* the keys of the source bucket
    vendorFiles,  \* the file list of the vendor's export job of the run (historical)
    gcs,          \* the objects under <prefix>/v<version>/<date>/ of the GCS bucket
    ext,          \* the record types whose external table of the date exists
    dest,         \* per record type the destination table: exists, rows of the date's
                  \* partition (per origin), number of rows of the other partitions
    deleteJobs,   \* DELETE query jobs submitted to BigQuery and not yet executed
    runs,         \* runs started so far
    pc,           \* position of the current run
    err,          \* the exception that ended the run, "" if none
    keys,         \* data_file_keys / file_uris of the run
    i,            \* index into keys
    cur,          \* the key whose CSV files are being staged
    j,            \* index into the CSV files of cur
    tables,       \* the tables the loader iterates, in iteration order
    datatypes,    \* save_files: the datatypes seen so far
    ph,           \* index into the loader steps of the run
    t,            \* index into tables
    polls,        \* status polls so far
    calls,        \* calls of the run: transforms, stage writes, loader steps
    sideEffect,   \* the run has made a request to the vendor, a store or the warehouse
    start         \* when the run started: the bucket, the destination tables and how
                  \* the run before it ended

vars == <<unit, streaming, s3, vendorFiles, gcs, ext, dest, deleteJobs, runs, pc, err, keys,
          i, cur, j, tables, datatypes, ph, t, polls, calls, sideEffect, start>>

(* --------------------------------------------------------------- helpers *)

SeqOfSet(order, S) == SelectSeq(order, LAMBDA x : x \in S)

Range(s) == {s[n] : n \in 1..Len(s)}

\* the element of a set of one element: in Only({F(x) : x \in {e}}) the value of
\* e is computed once and named x
Only(S) == CHOOSE x \in S : TRUE

\* all orders in which a set can be iterated
Perms(S) == {p \in [1..Cardinality(S) -> S] : Range(p) = S}

\* no function has been called directly
NoCall == [fn |-> ""]

NoCalls == [transform |-> 0, stage |-> 0, loader |-> <<>>, loaded |-> {}]

(* ------------------------------------------------- the pure parts of code *)

\* list_objects_v2(Prefix=os.path.join(prefix, date, "export-")): the keys that
\* start with <prefix>/<date>/export-
IsListed(k) ==
    /\ k.pfx = Prefix
    /\ k.date = Date
    /\ Len(k.name) >= 2
    /\ k.name[1] = "export"

\* the keys of the source bucket under the listing's Prefix, in listing order
Listing(bucket) == SeqOfSet(AllKeys, {k \in bucket : IsListed(k)})

\* one list_objects_v2 response: at most StorePageSize keys after the continuation
\* token (here: the number of keys already returned); the response has no
\* "Contents" when it holds no key
list_objects_v2(bucket, token) ==
    LET all == Listing(bucket)
        last == IF token + StorePageSize < Len(all) THEN token + StorePageSize ELSE Len(all)
    IN  [Contents |-> SubSeq(all, token + 1, last),
         HasContents |-> last > token,
         IsTruncated |-> last < Len(all),
         NextContinuationToken |-> last]

\* the while loop of get_files: a page is requested, its keys are appended, and the
\* loop goes on with the continuation token while the listing is truncated
RECURSIVE get_files_loop(_, _, _)
get_files_loop(bucket, token, data_file_keys) ==
    LET object_list == list_objects_v2(bucket, token)
    IN  IF ~object_list.HasContents
          THEN [exc |-> "KeyError", keys |-> <<>>]
          ELSE IF ~object_list.IsTruncated
                 THEN [exc |-> "", keys |-> data_file_keys \o object_list.Contents]
                 ELSE get_files_loop(bucket, object_list.NextContinuationToken,
                                     data_file_keys \o object_list.Contents)

\* get_files(date, bucket, prefix): the keys it returns, or the exception
get_files(bucket) == get_files_loop(bucket, 0, <<>>)

\* a call of get_files with keyword arguments: the function takes none but
\* date, bucket and prefix (max_keys, when given, as a one-element sequence)
get_files_call(bucket, max_keys) ==
    IF max_keys # <<>> THEN [exc |-> "TypeError", keys |-> <<>>] ELSE get_files(bucket)

\* filename_re: ^.*/\d{8}/export-.*-output-([0-9]+)$
filename_re(k) ==
    /\ Len(k.name) >= 4
    /\ k.name[1] = "export"
    /\ k.name[Len(k.name) - 1] = "output"
    /\ k.name[Len(k.name)] \in Digits

\* file_id = "-".join(data_file_key.split("-")[2:])
file_id(k) == SubSeq(k.name, 3, Len(k.name))

\* the name of the CSV file of a data type: <data_type>-<file_id>.csv
csv_file_name(data_type, k) == <<data_type>> \o file_id(k)

\* a schema lookup that answers for every record type
parse_schema_Lenient(data_type) == TRUE

\* parse_schema finds the schema file of the data type (else it raises ValueError)
parse_schema(data_type) == data_type \in SchemaTypes

\* parse_schema as a call: the schema's columns, or the ValueError
parse_schema_call(data_type) ==
    IF parse_schema(data_type)
      THEN [exc |-> "", value |-> <<data_type, "columns">>]
      ELSE [exc |-> "ValueError", value |-> <<>>]

\* bq_client.delete_table(table, not_found_ok): the table is deleted; NotFound
\* is raised for a missing table unless not_found_ok
delete_table(tables_now, table_name, not_found_ok) ==
    IF table_name \in tables_now \/ not_found_ok
      THEN [exc |-> "", ext |-> tables_now \ {table_name}]
      ELSE [exc |-> "NotFound", ext |-> tables_now]

\* bq_client.create_table(table): Conflict is raised when the table exists
create_table(tables_now, table_name) ==
    IF table_name \in tables_now
      THEN [exc |-> "Conflict", ext |-> tables_now]
      ELSE [exc |-> "", ext |-> tables_now \cup {table_name}]

\* a creation that does not delete the table of the same name first
create_external_table_KeepsOld(tables_now, table_name) ==
    IF parse_schema_call(table_name).exc = ""
      THEN create_table(tables_now, table_name)
      ELSE [exc |-> parse_schema_call(table_name).exc, ext |-> tables_now]

\* create_external_tables, one table: the old external table is deleted, the
\* schema parsed, the table created
create_external_table(tables_now, table_name) ==
    IF parse_schema_call(table_name).exc = ""
      THEN create_table(delete_table(tables_now, table_name, TRUE).ext, table_name)
      ELSE [exc |-> parse_schema_call(table_name).exc,
            ext |-> delete_table(tables_now, table_name, TRUE).ext]

\* create_external_tables: the tables in order, up to the first exception
RECURSIVE create_external_tables(_, _)
create_external_tables(tables_now, names) ==
    IF names = <<>>
      THEN [exc |-> "", ext |-> tables_now]
      ELSE IF create_external_table(tables_now, Head(names)).exc # ""
             THEN create_external_table(tables_now, Head(names))
             ELSE create_external_tables(create_external_table(tables_now, Head(names)).ext,
                                         Tail(names))

(* object paths are sequences of pieces of text, "/" being a piece of its own *)

\* os.path.join of two paths: an absolute second path replaces the first, else a
\* "/" is put between the two unless the first is empty or ends with one
os_path_join(a, b) ==
    IF b # <<>> /\ Head(b) = "/"
      THEN b
      ELSE IF a = <<>> \/ a[Len(a)] = "/"
             THEN a \o b
             ELSE a \o <<"/">> \o b

\* get_gcs_prefix without data_type: <prefix>/v<version>/<date>/
get_gcs_prefix(prefix, version, date) ==
    os_path_join(os_path_join(os_path_join(prefix, <<"v", version>>), <<date>>), <<>>)

\* write_to_gcs: the path of the blob
gcs_path(prefix, version, date, data_type, name) ==
    os_path_join(os_path_join(get_gcs_prefix(prefix, version, date), <<data_type>>), name)

\* create_external_tables: gs://<bucket>/<get_gcs_prefix>
gcs_loc(bucket_name, prefix, version, date) ==
    <<"gs://", bucket_name, "/">> \o get_gcs_prefix(prefix, version, date)

\* a source that is the whole directory of the date
source_uris_WholeDate(loc, leanplum_name) == os_path_join(loc, <<"*">>)

\* create_external_tables: the one source URI of the table of a record type
source_uris(loc, leanplum_name) ==
    os_path_join(os_path_join(loc, <<leanplum_name>>), <<"*">>)

\* the URI of an object
ObjectUri(bucket_name, path) == <<"gs://", bucket_name, "/">> \o path

\* the wildcard of a source URI stands for any text: the URI reads the objects
\* whose URI starts with what is before the "*"
ReadsObject(uri, object_uri) ==
    /\ uri # <<>>
    /\ uri[Len(uri)] = "*"
    /\ Len(object_uri) >= Len(uri)
    /\ SubSeq(object_uri, 1, Len(uri) - 1) = SubSeq(uri, 1, Len(uri) - 1)

\* upload of one object: an object of the same path is replaced
write_to_gcs(bucket, data_type, name, body) ==
    {o \in bucket : ~(o.date = Date /\ o.dir = data_type /\ o.name = name)}
        \cup {[date |-> Date, dir |-> data_type, name |-> name, body |-> body]}

\* a delete that spares the marker directory
delete_gcs_prefix_KeepsMarkers(bucket) ==
    {o \in bucket : o.date # Date \/ o.dir = LedgerDir}

\* a delete that is skipped (as if staged output were kept between runs)
delete_gcs_prefix_Skipped(bucket) == bucket

\* every blob under get_gcs_prefix(prefix, version, date) is deleted
delete_gcs_prefix(bucket) == {o \in bucket : o.date # Date}

\* the base names of the import markers of the date
already_imported(bucket) ==
    {o.name : o \in {x \in bucket : x.date = Date /\ x.dir = LedgerDir}}

\* the rows the external table of a record type reads: source_uris is
\* gs://<bucket>/<prefix>/v<version>/<date>/<type>/*
ExtRows(bucket, ty) ==
    [o \in Origins |->
        Cardinality({x \in bucket : x.date = Date /\ x.dir = ty /\ x.body = o})]

\* a load whose rows are not committed to the destination table
LoadInto_NotCommitted(d, rows) == d

\* CREATE TABLE ... AS SELECT / INSERT INTO ... SELECT from the external table
\* with <date> AS load_date: a table that does not exist is created with the
\* selected rows, an existing one gets them appended
LoadInto(d, rows) ==
    IF ~d.exists
      THEN [exists |-> TRUE, rows |-> rows, other |-> 0]
      ELSE [d EXCEPT !.rows = [o \in Origins |-> d.rows[o] + rows[o]]]

\* a DELETE without the WHERE clause on the date
DeleteRows_AllPartitions(d) ==
    IF d.exists THEN [d EXCEPT !.rows = NoRows, !.other = 0] ELSE d

\* DELETE FROM <table> WHERE load_date = <date>; the job fails on a missing table
DeleteRows(d) == IF d.exists THEN [d EXCEPT !.rows = NoRows] ELSE d

\* the loader steps of StreamingLeanplumExporter.export
StreamLoaderSteps == <<"create", "load", "drop">>

\* the loader steps of LeanplumExporter.export
HistLoaderSteps == <<"create", "delete", "load", "drop">>

LoaderSteps == IF streaming THEN StreamLoaderSteps ELSE HistLoaderSteps

\* a loop that skips the files the ledger holds
ShouldTransform_SkipsImported(k, imported) == filename_re(k) /\ k.name \notin imported

\* export_streaming.py 189-191: the key is transformed when it is a data file
ShouldTransform(k, imported) == filename_re(k)

\* the loop index after the CSV files of keys[i] are staged: "break  # TODO: remove"
AfterFile(idx, n) == n + 1

(* ------------------------------------------------ the record decomposition *)

\* JSON values of a session record; a JSON object is a function on the keys it
\* has, a key-ordered map (userAttributes, parameters) a sequence of <<key, value>>
JNull == [t |-> "null", s |-> "", n |-> 0]
JStr(str) == [t |-> "str", s |-> str, n |-> 0]
JInt(n) == [t |-> "int", s |-> "", n |-> n]
JBool(b) == [t |-> "bool", s |-> "", n |-> IF b THEN 1 ELSE 0]

EmptyObj == [key \in {} |-> JNull]

\* dict.get(key, default)
Get(obj, key, default) == IF key \in DOMAIN obj THEN obj[key] ELSE default

\* the integers written by the decimal strings of the model
IntOfString == ("1" :> 1) @@ ("12" :> 12)

\* int(x) of Python: the integer, or the exception
int(x) ==
    CASE x.t = "int" -> [exc |-> "", v |-> x.n]
      [] x.t = "bool" -> [exc |-> "", v |-> x.n]
      [] x.t = "str" -> IF x.s \in DOMAIN IntOfString
                          THEN [exc |-> "", v |-> IntOfString[x.s]]
                          ELSE [exc |-> "ValueError", v |-> 0]
      [] OTHER -> [exc |-> "TypeError", v |-> 0]

\* int(session_data["sessionId"])
session_id(session_data) ==
    IF "sessionId" \in DOMAIN session_data
      THEN int(session_data["sessionId"])
      ELSE [exc |-> "KeyError", v |-> 0]

RECURSIVE Concat(_)
Concat(seqs) == IF seqs = <<>> THEN <<>> ELSE Head(seqs) \o Concat(Tail(seqs))

\* extract_user_attributes: one row per entry of userAttributes; the session id
\* is converted in the loop body
extract_user_attributes(session_data) ==
    LET attributes == Get(session_data, "userAttributes", <<>>)
        sid == session_id(session_data)
    IN  IF Len(attributes) > 0 /\ sid.exc # ""
          THEN [exc |-> sid.exc, rows |-> <<>>]
          ELSE [exc |-> "",
                rows |-> [n \in 1..Len(attributes) |->
                            [sessionId |-> sid.v,
                             name |-> attributes[n][1],
                             value |-> attributes[n][2]]]]

\* a state extraction that emits a row per state of the record
extract_states_RowPerState(session_data) ==
    LET states == Get(session_data, "states", <<>>)
    IN  [n \in 1..Len(states) |-> [stateId |-> states[n].stateId]]

\* extract_states: return []
extract_states(session_data) == <<>>

\* an experiment extraction that loses the last experiment
extract_experiments_DropsLast(session_data) ==
    LET list == Get(session_data, "experiments", <<>>)
        sid == session_id(session_data)
    IN  IF Len(list) > 0 /\ sid.exc # ""
          THEN [exc |-> sid.exc, rows |-> <<>>]
          ELSE [exc |-> "",
                rows |-> [n \in 1..(Len(list) - 1) |->
                            [sessionId |-> sid.v,
                             experimentId |-> list[n].id,
                             variantId |-> list[n].variantId]]]

\* extract_experiments: one row per entry of experiments, in list order
extract_experiments(session_data) ==
    LET list == Get(session_data, "experiments", <<>>)
        sid == session_id(session_data)
    IN  IF Len(list) > 0 /\ sid.exc # ""
          THEN [exc |-> sid.exc, rows |-> <<>>]
          ELSE [exc |-> "",
                rows |-> [n \in 1..Len(list) |->
                            [sessionId |-> sid.v,
                             experimentId |-> list[n].id,
                             variantId |-> list[n].variantId]]]

\* the events of a record with their states, states in list order, events in
\* list order
StateEvents(session_data) ==
    LET states == Get(session_data, "states", <<>>)
    IN  Concat([n \in 1..Len(states) |->
                  [m \in 1..Len(Get(states[n], "events", <<>>)) |->
                      [state |-> states[n], event |-> states[n].events[m]]]])

\* parameter rows keyed by the session instead of the event
parameter_rows_BySession(event) ==
    LET parameters == Get(event, "parameters", <<>>)
    IN  [n \in 1..Len(parameters) |->
            [sessionId |-> event.eventId,
             name |-> parameters[n][1],
             value |-> parameters[n][2]]]

\* the rows appended to event_parameters for one event
parameter_rows(event) ==
    LET parameters == Get(event, "parameters", <<>>)
    IN  [n \in 1..Len(parameters) |->
            [eventId |-> event.eventId,
             name |-> parameters[n][1],
             value |-> parameters[n][2]]]

\* the row appended to events for one event
event_row(sid, state, event) ==
    [sessionId |-> sid,
     stateId |-> state.stateId,
     eventId |-> event.eventId,
     eventName |-> event.name,
     start |-> event.time,
     value |-> event.value,
     info |-> Get(event, "info", JNull),
     timeUntilFirstForUser |-> Get(event, "timeUntilFirstForUser", JNull)]

\* extract_events: (events, event_parameters), or the exception
extract_events(session_data) ==
    LET all == StateEvents(session_data)
        sid == session_id(session_data)
    IN  IF Len(all) > 0 /\ sid.exc # ""
          THEN [exc |-> sid.exc, events |-> <<>>, event_parameters |-> <<>>]
          ELSE [exc |-> "",
                events |-> [n \in 1..Len(all) |->
                              event_row(sid.v, all[n].state, all[n].event)],
                event_parameters |->
                    Concat([n \in 1..Len(all) |-> parameter_rows(all[n].event)])]

\* mapping from name in destination table to name in source data
field_name_mappings ==
    ("timezoneOffset" :> "timezoneOffsetSeconds") @@ ("osName" :> "systemName")
        @@ ("osVersion" :> "systemVersion") @@ ("userStart" :> "firstRun")
        @@ ("start" :> "time")

\* the columns that the load of a table leaves out
DROP_COLS == [table \in {"sessions"} |-> {"lat", "lon"}]

\* load_tables: the columns of SELECT * EXCEPT (<drop_cols>) of a table
select_columns(table, columns) ==
    SelectSeq(columns, LAMBDA c : c \notin Get(DROP_COLS, table, {}))

\* a session extraction that redacts the geo columns
base_extract_session_Redacts(session_data, session_columns) ==
    [name \in (Range(session_columns) \ DROP_COLS["sessions"]) \cup {"isDeveloper"} |->
        IF name = "isDeveloper"
          THEN Get(session_data, "isDeveloper", JBool(FALSE))
          ELSE Get(session_data, Get(field_name_mappings, name, name), JNull)]

\* BaseLeanplumExporter.extract_session
base_extract_session(session_data, session_columns) ==
    [name \in Range(session_columns) \cup {"isDeveloper"} |->
        IF name = "isDeveloper"
          THEN Get(session_data, "isDeveloper", JBool(FALSE))
          ELSE Get(session_data, Get(field_name_mappings, name, name), JNull)]

\* a session extraction that converts the session id as the other extractors do
extract_session_IntegerId(session_data, session_columns) ==
    [name \in Range(session_columns) |->
        IF name = "sessionId" /\ session_id(session_data).exc = ""
          THEN JInt(session_id(session_data).v)
          ELSE Get(session_data, name, JNull)]

\* StreamingLeanplumExporter.extract_session (overrides the base one)
extract_session(session_data, session_columns) ==
    [name \in Range(session_columns) |-> Get(session_data, name, JNull)]

\* a writer of the tests (a Mock: it takes any row) and a csv.DictWriter on
\* the declared columns of a record type
MockWriter == [mock |-> TRUE, fieldnames |-> <<>>, rows |-> <<>>]
DictWriter(fieldnames) == [mock |-> FALSE, fieldnames |-> fieldnames, rows |-> <<>>]

\* writer.writerow(row): a DictWriter (extrasaction is left at "raise") raises
\* ValueError when the row has a key that is not in fieldnames, else it writes
\* the declared columns the row has (the others stay empty)
writerow(writer, row) ==
    IF ~writer.mock /\ DOMAIN row \ Range(writer.fieldnames) # {}
      THEN [exc |-> "ValueError", writer |-> writer]
      ELSE [exc |-> "",
            writer |-> [writer EXCEPT !.rows =
                           Append(@, IF writer.mock THEN row
                                     ELSE [c \in Range(writer.fieldnames) \cap DOMAIN row |->
                                              row[c]])]]

\* a write loop that stops after the first row
WriteRows_FirstOnly(csv_writers, data_type, rows) ==
    IF Len(rows) = 0 \/ writerow(csv_writers[data_type], rows[1]).exc # ""
      THEN [exc |-> "", writers |-> csv_writers]
      ELSE [exc |-> "",
            writers |-> [csv_writers EXCEPT ![data_type] = writerow(@, rows[1]).writer]]

\* csv_writers[data_type].writerow(row) for every row, up to the first exception
RECURSIVE WriteRows(_, _, _)
WriteRows(csv_writers, data_type, rows) ==
    Only({IF Len(a.rows) = 0
            THEN [exc |-> "", writers |-> a.writers]
            ELSE Only({IF w.exc # ""
                         THEN [exc |-> w.exc, writers |-> a.writers]
                         ELSE WriteRows([a.writers EXCEPT ![data_type] = w.writer],
                                        data_type, Tail(a.rows))
                       : w \in {writerow(a.writers[data_type], Head(a.rows))}})
          : a \in {[writers |-> csv_writers, rows |-> rows]}})

\* write_to_csv, the n-th of its six loops, the writers being r.writers: an
\* extractor that raises leaves the writers as they are
csv_step(n, r, session_data, schemas) ==
    CASE n = 1 ->
           IF extract_user_attributes(session_data).exc # ""
             THEN [exc |-> extract_user_attributes(session_data).exc, writers |-> r.writers]
             ELSE WriteRows(r.writers, "userattributes",
                            extract_user_attributes(session_data).rows)
      [] n = 2 -> WriteRows(r.writers, "sessions", extract_states(session_data))
      [] n = 3 ->
           IF extract_experiments(session_data).exc # ""
             THEN [exc |-> extract_experiments(session_data).exc, writers |-> r.writers]
             ELSE WriteRows(r.writers, "experiments", extract_experiments(session_data).rows)
      [] n = 4 -> WriteRows(r.writers, "sessions",
                            <<extract_session(session_data, schemas["sessions"])>>)
      [] n = 5 ->
           IF extract_events(session_data).exc # ""
             THEN [exc |-> extract_events(session_data).exc, writers |-> r.writers]
             ELSE WriteRows(r.writers, "events", extract_events(session_data).events)
      [] n = 6 -> WriteRows(r.writers, "eventparameters",
                            extract_events(session_data).event_parameters)

\* the loops from the n-th on, up to the first exception
RECURSIVE csv_steps(_, _, _, _)
csv_steps(n, after, session_data, schemas) ==
    Only({IF n > 6 \/ r.exc # ""
            THEN r
            ELSE csv_steps(n + 1, csv_step(n, r, session_data, schemas), session_data,
                           schemas)
          : r \in {after}})

\* write_to_csv: the rows of one record, extractor after extractor, each row
\* given to the writer of its record type
write_to_csv(csv_writers, session_data, schemas) ==
    csv_steps(1, [exc |-> "", writers |-> csv_writers], session_data, schemas)

\* the writers of test_write_to_csv_write_count, one Mock per data type
NewWriters == [data_type \in Range(DATA_TYPES) |-> MockWriter]

\* a line loop that goes on to the next line after a line that fails
RECURSIVE read_lines_SkipsBadLine(_, _, _)
read_lines_SkipsBadLine(csv_writers, lines, schemas) ==
    Only({IF Len(a.lines) = 0
            THEN [exc |-> "", writers |-> a.writers]
            ELSE IF ~Head(a.lines).json
                   THEN read_lines_SkipsBadLine(a.writers, Tail(a.lines), schemas)
                   ELSE Only({read_lines_SkipsBadLine(
                                  IF r.exc # "" THEN a.writers ELSE r.writers,
                                  Tail(a.lines), schemas)
                              : r \in {write_to_csv(a.writers, Head(a.lines).data, schemas)}})
          : a \in {[writers |-> csv_writers, lines |-> lines]}})

\* transform_data_file 169-171: json.loads and write_to_csv line by line, up to
\* the first exception
RECURSIVE read_lines(_, _, _)
read_lines(csv_writers, lines, schemas) ==
    Only({IF Len(a.lines) = 0
            THEN [exc |-> "", writers |-> a.writers]
            ELSE IF ~Head(a.lines).json
                   THEN [exc |-> "JSONDecodeError", writers |-> a.writers]
                   ELSE Only({IF r.exc # ""
                                THEN r
                                ELSE read_lines(r.writers, Tail(a.lines), schemas)
                              : r \in {write_to_csv(a.writers, Head(a.lines).data, schemas)}})
          : a \in {[writers |-> csv_writers, lines |-> lines]}})

\* transform_data_file: the CSV paths are named from the key and the files are
\* opened one after the other (160-162, before the try); inside the try the
\* DictWriters are made, the headers written and the lines read; the finally
\* closes every file.  failure is what the environment does: nothing, or an
\* OSError at the opening of the n-th file or at the n-th writeheader
transform_data_file(k, schemas, lines, failure) ==
    LET all == Range(DATA_TYPES)
        body == IF failure.at = "header"
                  THEN [exc |-> "OSError",
                        writers |-> [data_type \in all |-> DictWriter(schemas[data_type])]]
                  ELSE read_lines([data_type \in all |-> DictWriter(schemas[data_type])],
                                  lines, schemas)
    IN  IF failure.at = "open"
          THEN [exc |-> "OSError",
                paths |-> [data_type \in all |-> csv_file_name(data_type, k)],
                opened |-> {DATA_TYPES[n] : n \in 1..(failure.n - 1)},
                closed |-> {},
                writers |-> [data_type \in all |-> DictWriter(schemas[data_type])]]
          ELSE [exc |-> body.exc,
                paths |-> [data_type \in all |-> csv_file_name(data_type, k)],
                opened |-> all,
                closed |-> all,
                writers |-> body.writers]

(* ------------------------------------------------- the session records *)

\* an optional key of a JSON object: <<>> for absent, <<value>> for present
Field(name, opt) == IF Len(opt) = 0 THEN EmptyObj ELSE name :> opt[1]

SessionIdOpts == {<<>>, <<JStr("1")>>, <<JInt(12)>>, <<JStr("abc")>>, <<JNull>>}

A1 == <<"Mailto Is Default", JStr("True")>>
A2 == <<"Fxa Configured", JStr("False")>>
UserAttributeOpts == {<<>>, << <<>> >>, << <<A1>> >>, << <<A2, A1>> >>}

X1 == [id |-> 41, variantId |-> 7]
X2 == [id |-> 42, variantId |-> 8]
ExperimentOpts == {<<>>, << <<>> >>, << <<X1>> >>, << <<X2, X1>> >>, << <<X1, X2, X1>> >>}

P1 == <<"source", JStr("menu")>>
P2 == <<"count", JInt(3)>>
E1 == [eventId |-> 1, name |-> "E_Opened_App", time |-> 10, value |-> 0,
       parameters |-> <<P1, P2>>, info |-> JStr("i")]
E2 == [eventId |-> 2, name |-> "E_Opened_App", time |-> 11, value |-> 0]
E3 == [eventId |-> 3, name |-> "E_Saved", time |-> 12, value |-> 1,
       parameters |-> <<P1>>, timeUntilFirstForUser |-> JInt(5)]
E4 == [eventId |-> 4, name |-> "E_Closed", time |-> 13, value |-> 0, parameters |-> <<>>]

S0 == [stateId |-> 30]
S1 == [stateId |-> 31, events |-> <<E1, E2>>]
S2 == [stateId |-> 32, events |-> <<E3, E4>>]
StateOpts == {<<>>, << <<>> >>, << <<S0>> >>, << <<S1>> >>, << <<S2, S0, S1>> >>}

ScalarOpts ==
    {EmptyObj,
     [country |-> JStr("US"), lat |-> JStr("47.6"), lon |-> JStr("-122.3")],
     [timezoneOffsetSeconds |-> JInt(3600), systemName |-> JStr("iOS"),
      isDeveloper |-> JBool(TRUE), lat |-> JNull]}

Sessions ==
    {Field("sessionId", a) @@ Field("userAttributes", b) @@ Field("experiments", c)
        @@ Field("states", d) @@ e :
        a \in SessionIdOpts, b \in UserAttributeOpts, c \in ExperimentOpts,
        d \in StateOpts, e \in ScalarOpts}

ColumnLists ==
    {<<>>,
     <<"sessionId", "country">>,
     <<"sessionId", "lat", "lon", "country">>,
     <<"sessionId", "timezoneOffset", "osName", "isDeveloper", "lon">>}

\* the declared columns of the record types: the columns of the rows that the
\* extractors emit, and for sessions some of the columns of sessions.schema.json
SchemaColumns ==
    [data_type \in Range(DATA_TYPES) |->
        CASE data_type = "userattributes" -> <<"sessionId", "name", "value">>
          [] data_type = "experiments" -> <<"sessionId", "experimentId", "variantId">>
          [] data_type = "events" -> <<"sessionId", "stateId", "eventId", "eventName", "start",
                                       "value", "info", "timeUntilFirstForUser">>
          [] data_type = "eventparameters" -> <<"eventId", "name", "value">>
          [] data_type = "sessions" -> <<"sessionId", "country", "lat", "lon", "timezoneOffset",
                                         "osName", "isDeveloper">>
          [] OTHER -> <<"sessionId", "stateId">>]

\* schemas whose userattributes columns lack the value column
SchemaWithoutValue == [SchemaColumns EXCEPT !["userattributes"] = <<"sessionId", "name">>]

\* lines of a data file: a JSON document, or a line that json.loads rejects
JsonLine(session_data) == [json |-> TRUE, data |-> session_data]
BadLine == [json |-> FALSE, data |-> EmptyObj]

SD1 ==
    ("sessionId" :> JStr("1")) @@ ("userAttributes" :> <<A2, A1>>)
        @@ ("experiments" :> <<X1, X2>>) @@ ("states" :> <<S2, S0, S1>>)
        @@ [country |-> JStr("US"), lat |-> JStr("47.6"), lon |-> JStr("-122.3")]
SD2 ==
    ("sessionId" :> JInt(12)) @@ ("userAttributes" :> <<A1>>)
        @@ [timezoneOffsetSeconds |-> JInt(3600), systemName |-> JStr("iOS")]
\* a record whose session id is no integer, and one without session id that
\* has events only
SDText == ("sessionId" :> JStr("abc")) @@ ("userAttributes" :> <<A1>>)
SDNoId == ("states" :> <<S1>>) @@ [country |-> JStr("US")]

FileBodies ==
    {<<JsonLine(SD1), JsonLine(SD2)>>,
     <<JsonLine(SD1), BadLine, JsonLine(SD2)>>,
     <<JsonLine(SD1), JsonLine(SDText), JsonLine(SD2)>>,
     <<JsonLine(SD2), JsonLine(SDNoId)>>}

NoFailure == [at |-> "none", n |-> 0]
Failures ==
    {NoFailure, [at |-> "open", n |-> 1], [at |-> "open", n |-> 3], [at |-> "header", n |-> 2]}

TableLists == {<<>>, <<"sessions">>, <<"some_unknown_table">>, <<"sessions", "newtype">>,
               <<"newtype", "events">>}

(* ------------------------------------------------------------------ Init *)

Marker(k) == [date |-> Date, dir |-> LedgerDir, name |-> k.name, body |-> ""]

\* an object staged by a run for another date
OtherDateObject ==
    [date |-> "20200531", dir |-> "sessions", name |-> <<"sessions", "abc", "output", "0">>,
     body |-> "k1"]

\* a CSV file of the date staged before the first modelled run
StagedBefore ==
    [date |-> Date, dir |-> "sessions", name |-> csv_file_name("sessions", K1), body |-> "k1"]

\* a destination table that does not exist, and one that earlier runs have
\* loaded for another date
NoTable == [exists |-> FALSE, rows |-> NoRows, other |-> 0]
LoadedBefore == [exists |-> TRUE, rows |-> NoRows, other |-> 1]

InitialObjects == {Marker(K1), Marker(K2), StagedBefore, OtherDateObject}

Init ==
    /\ unit = NoCall
    /\ streaming \in BOOLEAN
    /\ IF streaming
         THEN /\ s3 \in {S \cup {KD} : S \in SUBSET {KM, K1, K2, K3}}
              /\ vendorFiles = <<>>
              /\ gcs \in SUBSET InitialObjects
         ELSE /\ s3 = {}
              /\ vendorFiles = <<>>
              /\ gcs \in SUBSET {OtherDateObject}
    /\ ext = {}
    /\ dest \in {[ty \in AllTypes |-> NoTable],
                 [ty \in AllTypes |-> IF ty \in SchemaTypes THEN LoadedBefore ELSE NoTable]}
    /\ deleteJobs = {}
    /\ runs = 0
    /\ pc = "idle"
    /\ err = ""
    /\ keys = <<>>
    /\ i = 0
    /\ cur = KM
    /\ j = 0
    /\ tables = <<>>
    /\ datatypes = {}
    /\ ph = 0
    /\ t = 0
    /\ polls = 0
    /\ calls = NoCalls
    /\ sideEffect = FALSE
    /\ start = [gcs |-> {}, dest |-> dest, prev |-> "idle", ext |-> {}]

(* --------------------------------------------------------------- actions *)

Running == pc \notin {"idle", "done", "failed", "crashed"}

persistent == <<unit, streaming, s3, vendorFiles, gcs, ext, dest, deleteJobs, runs>>
locals == <<keys, i, cur, j, tables, datatypes, ph, t, polls>>

ResetLocals ==
    /\ keys' = <<>>
    /\ i' = 0
    /\ cur' = KM
    /\ j' = 0
    /\ tables' = <<>>
    /\ datatypes' = {}
    /\ ph' = 0
    /\ t' = 0
    /\ polls' = 0

Raise(e) ==
    /\ pc' = "failed"
    /\ err' = e

\* __main__.export_leanplum: the argument check, then the exporter's export
StartRun(haveArgs) ==
    /\ ~Running
    /\ runs < MaxRuns
    /\ runs' = runs + 1
    /\ ResetLocals
    /\ calls' = NoCalls
    /\ sideEffect' = FALSE
    /\ start' = [gcs |-> gcs, dest |-> dest, prev |-> pc, ext |-> ext]
    /\ IF haveArgs
         THEN /\ pc' = IF streaming THEN "parse_schemas" ELSE "init_export"
              /\ err' = ""
         ELSE Raise("ValueError")
    /\ unit' = NoCall
    /\ UNCHANGED <<streaming, s3, vendorFiles, gcs, ext, dest, deleteJobs>>

\* the process is killed between two steps
Crash ==
    /\ Running
    /\ pc' = "crashed"
    /\ err' = ""
    /\ ResetLocals
    /\ UNCHANGED <<persistent, calls, sideEffect, start>>

\* export_streaming.py 179-180: the schemas of DATA_TYPES
ParseSchemas ==
    /\ pc = "parse_schemas"
    /\ IF \A n \in 1..Len(DATA_TYPES) : parse_schema(DATA_TYPES[n])
         THEN pc' = "get_files" /\ err' = err
         ELSE Raise("ValueError")
    /\ UNCHANGED <<persistent, locals, calls, sideEffect, start>>

\* export_streaming.py 182 and get_files: object_list["Contents"] is absent from
\* the response when no key matches
GetFiles ==
    /\ pc = "get_files"
    /\ sideEffect' = TRUE
    /\ IF get_files(s3).exc # ""
         THEN Raise(get_files(s3).exc) /\ keys' = keys
         ELSE pc' = "delete_prefix" /\ err' = err /\ keys' = get_files(s3).keys
    /\ UNCHANGED <<persistent, i, cur, j, tables, datatypes, ph, t, polls, calls, start>>

\* export_streaming.py 186-187
DeletePrefix ==
    /\ pc = "delete_prefix"
    /\ gcs' = delete_gcs_prefix(gcs)
    /\ sideEffect' = TRUE
    /\ pc' = "loop"
    /\ i' = 1
    /\ UNCHANGED <<unit, streaming, s3, vendorFiles, ext, dest, deleteJobs, runs, err, keys, cur,
                   j, tables, datatypes, ph, t, polls, calls, start>>

\* export_streaming.py 189-191: a key that is not a data file is skipped
LoopSkip ==
    /\ pc = "loop"
    /\ i <= Len(keys)
    /\ ~ShouldTransform(keys[i], already_imported(start.gcs))
    /\ i' = i + 1
    /\ UNCHANGED <<persistent, pc, err, keys, cur, j, tables, datatypes, ph, t, polls,
                   calls, sideEffect, start>>

\* export_streaming.py 193-194: transform_data_file of the key, whose body is
\* lines; an exception leaves the with block and export
Transform(lines, failure) ==
    /\ pc = "loop"
    /\ i <= Len(keys)
    /\ ShouldTransform(keys[i], already_imported(start.gcs))
    /\ cur' = keys[i]
    /\ calls' = [calls EXCEPT !.transform = @ + 1]
    /\ \E ret \in {transform_data_file(keys[i], SchemaColumns, lines, failure)} :
          /\ unit' = [fn |-> "transform_data_file", key |-> keys[i],
                      schemas |-> SchemaColumns, lines |-> lines, failure |-> failure,
                      ret |-> ret]
          /\ IF ret.exc = ""
               THEN /\ j' = 1
                    /\ pc' = "stage"
                    /\ err' = err
               ELSE /\ j' = j
                    /\ Raise(ret.exc)
    /\ UNCHANGED <<streaming, s3, vendorFiles, gcs, ext, dest, deleteJobs, runs, keys, i,
                   tables, datatypes, ph, t, polls, sideEffect, start>>

\* export_streaming.py 196-200: write_to_gcs of one CSV file; after the last one
\* the loop is left
Stage ==
    /\ pc = "stage"
    /\ gcs' = write_to_gcs(gcs, DATA_TYPES[j], csv_file_name(DATA_TYPES[j], cur), cur.id)
    /\ calls' = [calls EXCEPT !.stage = @ + 1]
    /\ IF j < Len(DATA_TYPES)
         THEN j' = j + 1 /\ pc' = pc /\ i' = i
         ELSE j' = 0 /\ pc' = "loop" /\ i' = AfterFile(i, Len(keys))
    /\ UNCHANGED <<unit, streaming, s3, vendorFiles, ext, dest, deleteJobs, runs, err, keys, cur,
                   tables, datatypes, ph, t, polls, sideEffect, start>>

\* export_streaming.py 202: the loop is over, the loader steps start
LoopEnd ==
    /\ pc = "loop"
    /\ i > Len(keys)
    /\ tables' = DATA_TYPES
    /\ ph' = 1
    /\ t' = 1
    /\ pc' = "loader"
    /\ UNCHANGED <<persistent, err, keys, i, cur, j, datatypes, polls, calls, sideEffect,
                   start>>

(* the loader: base_exporter.py, one step of LoaderSteps after the other, each
   iterating the tables *)

Step == LoaderSteps[ph]

InStep(name) ==
    /\ pc = "loader"
    /\ Step = name
    /\ t <= Len(tables)

\* create_external_tables, one table: delete_table(not_found_ok), parse_schema,
\* create_table
CreateExternalTable ==
    /\ InStep("create")
    /\ sideEffect' = TRUE
    /\ ext' = create_external_table(ext, tables[t]).ext
    /\ IF create_external_table(ext, tables[t]).exc = ""
         THEN /\ t' = t + 1
              /\ UNCHANGED <<pc, err>>
         ELSE /\ t' = t
              /\ Raise(create_external_table(ext, tables[t]).exc)
    /\ UNCHANGED <<unit, streaming, s3, vendorFiles, gcs, dest, deleteJobs, runs, keys, i, cur, j,
                   tables, datatypes, ph, polls, calls, start>>

\* create_external_tables, one table: BigQuery refuses create_table
CreateExternalTableFails ==
    /\ InStep("create")
    /\ parse_schema(tables[t])
    /\ sideEffect' = TRUE
    /\ ext' = ext \ {tables[t]}
    /\ Raise("BigQueryError")
    /\ UNCHANGED <<unit, streaming, s3, vendorFiles, gcs, dest, deleteJobs, runs, keys, i, cur, j,
                   tables, datatypes, ph, t, polls, calls, start>>

\* delete_existing_data, one table: the DELETE job is submitted; its result is
\* not awaited
DeleteExistingData ==
    /\ InStep("delete")
    /\ deleteJobs' = deleteJobs \cup {tables[t]}
    /\ sideEffect' = TRUE
    /\ t' = t + 1
    /\ UNCHANGED <<unit, streaming, s3, vendorFiles, gcs, ext, dest, runs, pc, err, keys, i, cur,
                   j, tables, datatypes, ph, polls, calls, start>>

\* delete_existing_data, one table: the destination table does not exist and
\* BigQuery refuses the DELETE statement when the job is submitted (the
\* statement is not guarded by get_table_exists); when BigQuery accepts the job
\* instead, DeleteExistingData applies and the job fails later, unobserved
DeleteExistingDataFails ==
    /\ InStep("delete")
    /\ ~dest[tables[t]].exists
    /\ sideEffect' = TRUE
    /\ Raise("NotFound")
    /\ UNCHANGED <<persistent, locals, calls, start>>

\* BigQuery executes a submitted DELETE job
BqRunDelete(ty) ==
    /\ ty \in deleteJobs
    /\ deleteJobs' = deleteJobs \ {ty}
    /\ dest' = [dest EXCEPT ![ty] = DeleteRows(@)]
    /\ UNCHANGED <<unit, streaming, s3, vendorFiles, gcs, ext, runs, pc, err, locals, calls,
                   sideEffect, start>>

\* load_tables, one table: the query job and job.result()
LoadTable ==
    /\ InStep("load")
    /\ tables[t] \in ext
    /\ dest' = [dest EXCEPT ![tables[t]] = LoadInto(@, ExtRows(gcs, tables[t]))]
    /\ calls' = [calls EXCEPT !.loaded = @ \cup {tables[t]}]
    /\ sideEffect' = TRUE
    /\ t' = t + 1
    /\ UNCHANGED <<unit, streaming, s3, vendorFiles, gcs, ext, deleteJobs, runs, pc, err, keys, i,
                   cur, j, tables, datatypes, ph, polls, start>>

\* load_tables, one table: the query job fails (more bad records than
\* max_bad_records, no file under the source URI, an API error)
LoadTableFails ==
    /\ InStep("load")
    /\ sideEffect' = TRUE
    /\ Raise("BigQueryError")
    /\ UNCHANGED <<persistent, locals, calls, start>>

\* drop_external_tables, one table: delete_table raises NotFound on a missing table
DropExternalTable ==
    /\ InStep("drop")
    /\ sideEffect' = TRUE
    /\ ext' = delete_table(ext, tables[t], FALSE).ext
    /\ IF delete_table(ext, tables[t], FALSE).exc = ""
         THEN /\ t' = t + 1
              /\ UNCHANGED <<pc, err>>
         ELSE /\ t' = t
              /\ Raise(delete_table(ext, tables[t], FALSE).exc)
    /\ UNCHANGED <<unit, streaming, s3, vendorFiles, gcs, dest, deleteJobs, runs, keys, i, cur, j,
                   tables, datatypes, ph, polls, calls, start>>

\* the loader step returns; export goes on to the next one, or returns
StepReturn ==
    /\ pc = "loader"
    /\ t > Len(tables)
    /\ calls' = [calls EXCEPT !.loader = Append(@, Step)]
    /\ IF ph < Len(LoaderSteps)
         THEN ph' = ph + 1 /\ t' = 1 /\ pc' = pc
         ELSE ph' = ph /\ t' = t /\ pc' = "done"
    /\ UNCHANGED <<persistent, err, keys, i, cur, j, tables, datatypes, polls, sideEffect,
                   start>>

(* the historical exporter: export.py *)

\* init_export: the exportData request
InitExport ==
    /\ pc = "init_export"
    /\ vendorFiles' \in {SeqOfSet(AllUris, S) : S \in SUBSET UriSet}
    /\ sideEffect' = TRUE
    /\ pc' = "poll"
    /\ UNCHANGED <<unit, streaming, s3, gcs, ext, dest, deleteJobs, runs, err, locals, calls,
                   start>>

\* init_export: raise_for_status raises
InitExportFails ==
    /\ pc = "init_export"
    /\ sideEffect' = TRUE
    /\ Raise("HTTPError")
    /\ UNCHANGED <<persistent, locals, calls, start>>

\* the getExportResults responses a job with this file list can give: while the job
\* runs the response lists no file or the files exported so far
Responses(files) ==
    {[state |-> "RUNNING", files |-> <<>>],
     [state |-> "RUNNING", files |-> IF files = <<>> THEN <<>> ELSE SubSeq(files, 1, 1)],
     [state |-> FINISHED_STATE, files |-> files]}

FinishedResponse == [state |-> FINISHED_STATE, files |-> vendorFiles]

\* a loop that is left after the first response
loading_Never(response) == FALSE

\* get_files 69-75: the loop goes on unless the response's state is FINISHED
loading(response) == response.state # FINISHED_STATE

\* get_files, one pass of the loop: the request, then either the sleep (the state
\* is not FINISHED) or the return of the response's files
Poll(response) ==
    /\ pc = "poll"
    /\ unit' = [fn |-> "get_files", response |-> response]
    /\ IF loading(response)
         THEN /\ polls < MaxPolls
              /\ polls' = polls + 1
              /\ UNCHANGED <<keys, pc>>
         ELSE /\ keys' = response.files
              /\ pc' = "save_delete"
              /\ polls' = polls
    /\ UNCHANGED <<streaming, s3, vendorFiles, gcs, ext, dest, deleteJobs, runs, err, i, cur, j,
                   tables, datatypes, ph, t, calls, sideEffect, start>>

\* get_files 66-67: raise_for_status raises on the status response
PollFails ==
    /\ pc = "poll"
    /\ Raise("HTTPError")
    /\ UNCHANGED <<persistent, locals, calls, sideEffect, start>>

\* save_files 85-86: delete_gcs_prefix
SaveDelete ==
    /\ pc = "save_delete"
    /\ gcs' = delete_gcs_prefix(gcs)
    /\ i' = 1
    /\ datatypes' = {}
    /\ sideEffect' = TRUE
    /\ pc' = "save_loop"
    /\ UNCHANGED <<unit, streaming, s3, vendorFiles, ext, dest, deleteJobs, runs, err, keys, cur,
                   j, tables, ph, t, polls, calls, start>>

\* save_files 88-116, one uri: match, download, upload to <prefix>/<datatype>/<index>.csv
SaveFile ==
    /\ pc = "save_loop"
    /\ i <= Len(keys)
    /\ IF keys[i].wellformed
         THEN /\ datatypes' = datatypes \cup {keys[i].datatype}
              /\ gcs' = write_to_gcs(gcs, keys[i].datatype, <<keys[i].index>>, keys[i].id)
              /\ i' = i + 1
              /\ UNCHANGED <<pc, err>>
         ELSE /\ UNCHANGED <<datatypes, gcs, i>>
              /\ Raise("Exception")
    /\ sideEffect' = TRUE
    /\ UNCHANGED <<unit, streaming, s3, vendorFiles, ext, dest, deleteJobs, runs, keys, cur, j,
                   tables, ph, t, polls, calls, start>>

\* save_files returns the set of datatypes; the loader iterates it in the set's order
SaveReturn ==
    /\ pc = "save_loop"
    /\ i > Len(keys)
    /\ \E order \in Perms(datatypes) : tables' = order
    /\ ph' = 1
    /\ t' = 1
    /\ pc' = "loader"
    /\ UNCHANGED <<persistent, err, keys, i, cur, j, datatypes, polls, calls, sideEffect,
                   start>>

Next ==
    \/ \E haveArgs \in BOOLEAN : StartRun(haveArgs)
    \/ Crash
    \/ ParseSchemas
    \/ GetFiles
    \/ DeletePrefix
    \/ LoopSkip
    \/ \E lines \in FileBodies, failure \in Failures : Transform(lines, failure)
    \/ Stage
    \/ LoopEnd
    \/ CreateExternalTable
    \/ CreateExternalTableFails
    \/ DeleteExistingData
    \/ DeleteExistingDataFails
    \/ \E ty \in AllTypes : BqRunDelete(ty)
    \/ LoadTable
    \/ LoadTableFails
    \/ DropExternalTable
    \/ StepReturn
    \/ InitExport
    \/ InitExportFails
    \/ \E response \in Responses(vendorFiles) : Poll(response)
    \/ PollFails
    \/ SaveDelete
    \/ SaveFile
    \/ SaveReturn

Spec == Init /\ [][Next]_vars

\* the vendor reports FINISHED to a poll sooner or later
VendorFinishes == WF_vars(Poll(FinishedResponse))

LiveSpec == Spec /\ VendorFinishes

(* ------------------------------------------- the functions called directly *)

\* the variables of the export runs
exportVars == <<streaming, s3, vendorFiles, gcs, ext, dest, deleteJobs, runs, pc, err, keys,
                i, cur, j, tables, datatypes, ph, t, polls, calls, sideEffect, start>>

\* no run is under way while a function is called directly
UnitInit ==
    /\ Init
    /\ streaming
    /\ s3 = {KD}
    /\ gcs = {}
    /\ dest = [ty \in AllTypes |-> NoTable]

\* each call is made on a fresh exporter
Call(record) ==
    /\ unit = NoCall
    /\ unit' = record
    /\ UNCHANGED exportVars

CallParseSchema(data_type) ==
    Call([fn |-> "parse_schema", data_type |-> data_type,
          ret |-> parse_schema_call(data_type)])

CallCreateExternalTables(names) ==
    Call([fn |-> "create_external_tables", tables |-> names,
          ret |-> create_external_tables({}, names)])

CallGetFiles(bucket, max_keys) ==
    Call([fn |-> "get_files", bucket |-> bucket, max_keys |-> max_keys,
          ret |-> get_files_call(bucket, max_keys)])

CallExtractUserAttributes(session_data) ==
    Call([fn |-> "extract_user_attributes", session_data |-> session_data,
          ret |-> extract_user_attributes(session_data)])

CallExtractStates(session_data) ==
    Call([fn |-> "extract_states", session_data |-> session_data,
          ret |-> extract_states(session_data)])

CallExtractExperiments(session_data) ==
    Call([fn |-> "extract_experiments", session_data |-> session_data,
          ret |-> extract_experiments(session_data)])

CallExtractEvents(session_data) ==
    Call([fn |-> "extract_events", session_data |-> session_data,
          ret |-> extract_events(session_data)])

CallBaseExtractSession(session_data, session_columns) ==
    Call([fn |-> "base_extract_session", session_data |-> session_data,
          session_columns |-> session_columns,
          ret |-> base_extract_session(session_data, session_columns)])

CallExtractSession(session_data, session_columns) ==
    Call([fn |-> "extract_session", session_data |-> session_data,
          session_columns |-> session_columns,
          ret |-> extract_session(session_data, session_columns)])

CallWriteToCsv(session_data, session_columns) ==
    Call([fn |-> "write_to_csv", session_data |-> session_data,
          session_columns |-> session_columns,
          ret |-> write_to_csv(NewWriters, session_data,
                               [data_type \in {"sessions"} |-> session_columns])])

\* export_streaming.py 193-198, for one file: transform_data_file names a CSV
\* file per data type, write_to_gcs uploads each under its file name
\* the arguments of the staging calls
Prefixes == {<<>>, <<"firefox">>, <<"firefox", "/">>, <<"firefox", "/", "sub">>}
Versions == {"1", "2"}
Dates == {Date, "20200602"}
Bucket == "bucket"

\* write_to_gcs of one file
CallWriteToGcs(prefix, version, date, data_type, name) ==
    Call([fn |-> "write_to_gcs", prefix |-> prefix, version |-> version, date |-> date,
          data_type |-> data_type, name |-> name,
          ret |-> gcs_path(prefix, version, date, data_type, name)])

RECURSIVE stage_file(_, _, _)
stage_file(bucket, k, data_types) ==
    IF data_types = <<>>
      THEN bucket
      ELSE stage_file(write_to_gcs(bucket, Head(data_types),
                                   csv_file_name(Head(data_types), k), k.id),
                      k, Tail(data_types))

\* the data files of the date: the keys that get_files lists and filename_re accepts
DataFiles == {k \in KeySet : IsListed(k) /\ filename_re(k)}

\* the loop body of export for one data file and then for another
CallStageFiles(k1, k2) ==
    Call([fn |-> "stage_files", files |-> <<k1, k2>>,
          ret |-> stage_file(stage_file({}, k1, DATA_TYPES), k2, DATA_TYPES)])

CallTransformDataFile(k, schemas, lines, failure) ==
    Call([fn |-> "transform_data_file", key |-> k, schemas |-> schemas, lines |-> lines,
          failure |-> failure,
          ret |-> transform_data_file(k, schemas, lines, failure)])

UnitNext ==
    \/ unit = NoCall /\ \E prefix \in Prefixes, version \in Versions, date \in Dates :
          \E data_type \in Range(DATA_TYPES) :
              \E name \in {<<"c">>, csv_file_name(data_type, K1)} :
                  CallWriteToGcs(prefix, version, date, data_type, name)
    \/ unit = NoCall /\ \E schemas \in {SchemaColumns, SchemaWithoutValue} :
          \E lines \in FileBodies, failure \in Failures :
              CallTransformDataFile(K1, schemas, lines, failure)
    \/ unit = NoCall /\ \E k1 \in DataFiles : \E k2 \in DataFiles \ {k1} :
          CallStageFiles(k1, k2)
    \/ unit = NoCall /\ \E data_type \in AllTypes \cup {"some_unknown_table"} :
          CallParseSchema(data_type)
    \/ unit = NoCall /\ \E names \in TableLists : CallCreateExternalTables(names)
    \/ unit = NoCall /\ \E bucket \in SUBSET KeySet, max_keys \in {<<>>, <<1>>} :
          CallGetFiles(bucket, max_keys)
    \/ unit = NoCall /\ \E session_data \in Sessions : CallExtractUserAttributes(session_data)
    \/ unit = NoCall /\ \E session_data \in Sessions : CallExtractStates(session_data)
    \/ unit = NoCall /\ \E session_data \in Sessions : CallExtractExperiments(session_data)
    \/ unit = NoCall /\ \E session_data \in Sessions : CallExtractEvents(session_data)
    \/ unit = NoCall /\ \E session_data \in Sessions, session_columns \in ColumnLists :
          CallBaseExtractSession(session_data, session_columns)
    \/ unit = NoCall /\ \E session_data \in Sessions, session_columns \in ColumnLists :
          CallExtractSession(session_data, session_columns)
    \/ unit = NoCall /\ \E session_data \in Sessions, session_columns \in ColumnLists :
          CallWriteToCsv(session_data, session_columns)

UnitSpec == UnitInit /\ [][UnitNext]_vars

(* ---------------------------------------------------------------- claims *)

\* the objects of a bucket under the staging prefix of the date
DateObjects(bucket) == {o \in bucket : o.date = Date}

\* the data files that the source bucket holds for the date
SourceDataFiles == {k \in s3 : IsListed(k) /\ filename_re(k)}

\* the data files among the enumerated keys, and the first of them
EnumeratedDataFiles == {n \in 1..Len(keys) : filename_re(keys[n])}
FirstDataFile == keys[CHOOSE n \in EnumeratedDataFiles : \A m \in EnumeratedDataFiles : n <= m]

\* the tables of the run that are before / not before position n of the loader's order
TablesBefore(n) == {tables[m] : m \in 1..(n - 1)}

\* C1: when a run for the date completes after an earlier completed run (same
\* staged input), the date's partition of every destination table of the run
\* holds exactly one copy of the staged rows.
C1_LoadTwiceOneCopy ==
    (pc = "done" /\ start.prev = "done")
        => \A ty \in Range(tables) : dest[ty].rows = ExtRows(gcs, ty)

C4_ResumedRunStagesEveryFile ==
    (streaming /\ pc = "done" /\ start.prev = "crashed")
        => \A n \in 1..Len(DATA_TYPES) : \A k \in SourceDataFiles :
              ExtRows(gcs, DATA_TYPES[n])[k.id] = 1

C7_TransformsEveryFile ==
    (streaming /\ pc \in {"loader", "done"})
        => LET todo == {n \in EnumeratedDataFiles :
                           keys[n].name \notin already_imported(start.gcs)}
           IN  /\ calls.transform = Cardinality(todo)
               /\ calls.stage = Cardinality(todo) * Len(DATA_TYPES)

\* C8: a run that completes, in either mode, has performed the loader steps
\* once each in the order create, delete, load, drop.
C8_LoaderStepsInOrder ==
    pc = "done" => calls.loader = <<"create", "delete", "load", "drop">>

\* C9: when the external-table creation or the load of a record type fails, no
\* destination table of the run holds this run's rows (nothing is committed
\* for some record types and not for the failed one).
C9_NoPartialCommit ==
    (pc = "failed" /\ ph > 0 /\ Step \in {"create", "load"}) => calls.loaded = {}

\* C9 as amended: a failure of an external-table creation leaves every
\* destination table unloaded by the run; a failure of the load of a record
\* type aborts the load there: the record types before it in the loader's order
\* are loaded and stay so (in stream mode their partitions hold the rows they
\* had plus the staged rows), the failed one and those after it are not loaded.
C9_LoadAbortsAtFailure ==
    (pc = "failed" /\ ph > 0 /\ Step \in {"create", "load"})
        => /\ Step = "create" => calls.loaded = {}
           /\ Step = "load" => calls.loaded = TablesBefore(t)
           /\ streaming =>
                \A n \in 1..Len(tables) :
                    dest[tables[n]] =
                        IF tables[n] \in calls.loaded
                          THEN [start.dest[tables[n]] EXCEPT
                                !.exists = TRUE,
                                !.rows = [o \in Origins |->
                                    start.dest[tables[n]].rows[o]
                                        + ExtRows(gcs, tables[n])[o]]]
                          ELSE start.dest[tables[n]]

C9_Witness ==
    /\ pc = "failed"
    /\ ph > 0
    /\ Step = "load"
    /\ calls.loaded # {}
    /\ \E ty \in calls.loaded : dest[ty].rows # start.dest[ty].rows

\* C10: a run that fails with a configuration error (ValueError: a record type
\* without schema, or missing command line arguments) has made no request to
\* the vendor, the object stores or the warehouse.
C10_ConfigErrorBeforeSideEffects ==
    (pc = "failed" /\ err = "ValueError") => ~sideEffect

\* C11: asking for the schema of a record type without descriptor raises the
\* configuration error (ValueError) and returns no value, when parse_schema is
\* called directly and when create_external_tables is given such a record
\* type; no external table is then created for it.
C11_UnknownTypeRaises ==
    /\ (unit.fn = "parse_schema" /\ unit.data_type \notin SchemaTypes)
         => unit.ret.exc = "ValueError" /\ unit.ret.value = <<>>
    /\ (unit.fn = "create_external_tables" /\ Range(unit.tables) \ SchemaTypes # {})
         => unit.ret.exc = "ValueError" /\ unit.ret.ext \subseteq SchemaTypes

C11_Witness ==
    /\ unit.fn = "create_external_tables"
    /\ unit.tables = <<"sessions", "newtype">>
    /\ unit.ret = [exc |-> "ValueError", ext |-> {"sessions"}]

\* C12: get_files returns exactly the keys under <prefix>/<date>/ whose name
\* is a well-formed data-file name (export-<anything>-output-<digits>).
C12_ReturnsOnlyDataFiles ==
    (unit.fn = "get_files" /\ unit.ret.exc = "")
        => Range(unit.ret.keys) =
             {k \in unit.bucket : k.pfx = Prefix /\ k.date = Date /\ filename_re(k)}

\* C13: whatever the page size, the injected override of 1 included, get_files
\* follows the continuation tokens to the last page and returns each key of
\* the unpaged listing once.
C13_PagedListingIsWholeListing ==
    (unit.fn = "get_files" /\ Listing(unit.bucket) # <<>>)
        => /\ unit.ret.exc = ""
           /\ unit.ret.keys = Listing(unit.bucket)

SessionIdOf(session_data) ==
    IF "sessionId" \notin DOMAIN session_data THEN <<>>
    ELSE IF session_data["sessionId"] = JStr("1") THEN <<1>>
    ELSE IF session_data["sessionId"] = JInt(12) THEN <<12>>
    ELSE <<>>

ListOf(obj, key) == IF key \in DOMAIN obj THEN obj[key] ELSE <<>>

RECURSIVE SumLen(_)
SumLen(seqs) == IF seqs = <<>> THEN 0 ELSE Len(Head(seqs)) + SumLen(Tail(seqs))

\* the events of a record, state by state, and their number
EventsOf(session_data) ==
    Concat([n \in 1..Len(ListOf(session_data, "states")) |->
              ListOf(ListOf(session_data, "states")[n], "events")])
NumEvents(session_data) == Len(EventsOf(session_data))
NumParameters(session_data) ==
    SumLen([n \in 1..NumEvents(session_data) |->
              ListOf(EventsOf(session_data)[n], "parameters")])

\* C15: state extraction yields the empty sequence for every session record,
\* and write_to_csv writes no state row: the states writer gets nothing and
\* the sessions writer, to which the state loop writes, gets the session row only.
C15_NoStateRows ==
    /\ unit.fn = "extract_states" => unit.ret = <<>>
    /\ unit.fn = "write_to_csv" =>
         /\ unit.ret.writers["states"].rows = <<>>
         /\ \A n \in 1..Len(unit.ret.writers["sessions"].rows) :
               unit.ret.writers["sessions"].rows[n]
                   = extract_session(unit.session_data, unit.session_columns)

C15_Witness ==
    /\ unit.fn = "write_to_csv"
    /\ Len(ListOf(unit.session_data, "states")) = 3
    /\ unit.ret.exc = ""
    /\ Len(unit.ret.writers["sessions"].rows) = 1
    /\ unit.ret.writers["states"].rows = <<>>

\* C16: for a session record with N experiments (0 when the list is absent)
\* extract_experiments returns N rows in list order, each with the record's
\* session id as an integer and the experiment's id and variant id; with
\* N > 0 and no session id that denotes an integer the call raises.
C16_ExperimentRows ==
    unit.fn = "extract_experiments" =>
        LET list == ListOf(unit.session_data, "experiments")
            sid == SessionIdOf(unit.session_data)
        IN  IF Len(list) > 0 /\ sid = <<>>
              THEN unit.ret.exc \in {"KeyError", "ValueError", "TypeError"}
              ELSE /\ unit.ret.exc = ""
                   /\ Len(unit.ret.rows) = Len(list)
                   /\ \A n \in 1..Len(list) :
                         unit.ret.rows[n] = [sessionId |-> sid[1],
                                             experimentId |-> list[n].id,
                                             variantId |-> list[n].variantId]

C16_Witness ==
    /\ unit.fn = "extract_experiments"
    /\ SessionIdOf(unit.session_data) = <<1>>
    /\ unit.ret.exc = ""
    /\ unit.ret.rows = <<[sessionId |-> 1, experimentId |-> 42, variantId |-> 8],
                         [sessionId |-> 1, experimentId |-> 41, variantId |-> 7]>>

\* C17: for every event of every state of a record extract_events emits as
\* many event-parameter rows as the event's parameter map has entries (none
\* when the map is absent), each keyed by the event's eventId and without
\* session id; the call raises only when there are events and the session id
\* denotes no integer.
C17_ParameterRowsPerEvent ==
    unit.fn = "extract_events" =>
        LET all == EventsOf(unit.session_data)
            rows == unit.ret.event_parameters
        IN  IF Len(all) > 0 /\ SessionIdOf(unit.session_data) = <<>>
              THEN unit.ret.exc \in {"KeyError", "ValueError", "TypeError"}
              ELSE /\ unit.ret.exc = ""
                   /\ Len(rows) = NumParameters(unit.session_data)
                   /\ \A n \in 1..Len(rows) : DOMAIN rows[n] = {"eventId", "name", "value"}
                   /\ \A m \in 1..Len(all) :
                         Cardinality({n \in 1..Len(rows) : rows[n].eventId = all[m].eventId})
                             = Len(ListOf(all[m], "parameters"))

C17_Witness ==
    /\ unit.fn = "extract_events"
    /\ unit.ret.exc = ""
    /\ Len(unit.ret.events) = 4
    /\ Len(unit.ret.event_parameters) = 3
    /\ unit.ret.event_parameters[1] = [eventId |-> 3, name |-> "source", value |-> JStr("menu")]

\* C18: for a valid session record (its session id denotes an integer)
\* write_to_csv writes one row per user attribute to the userattributes
\* writer, one per experiment to the experiments writer, one row to the
\* sessions writer, one per event to the events writer, one per event
\* parameter to the eventparameters writer and none to the states writer, and
\* every writer gets rows of its own record type only.
C18_RowsPerWriter ==
    (unit.fn = "write_to_csv" /\ SessionIdOf(unit.session_data) # <<>>) =>
        LET w == unit.ret.writers
            HasFields(data_type, fields) ==
                \A n \in 1..Len(w[data_type].rows) : DOMAIN w[data_type].rows[n] = fields
        IN  /\ unit.ret.exc = ""
            /\ Len(w["userattributes"].rows) = Len(ListOf(unit.session_data, "userAttributes"))
            /\ Len(w["experiments"].rows) = Len(ListOf(unit.session_data, "experiments"))
            /\ Len(w["sessions"].rows) = 1
            /\ Len(w["events"].rows) = NumEvents(unit.session_data)
            /\ Len(w["eventparameters"].rows) = NumParameters(unit.session_data)
            /\ Len(w["states"].rows) = 0
            /\ HasFields("userattributes", {"sessionId", "name", "value"})
            /\ HasFields("experiments", {"sessionId", "experimentId", "variantId"})
            /\ HasFields("sessions", Range(unit.session_columns))
            /\ HasFields("events", {"sessionId", "stateId", "eventId", "eventName", "start",
                                    "value", "info", "timeUntilFirstForUser"})
            /\ HasFields("eventparameters", {"eventId", "name", "value"})

C18_Witness ==
    /\ unit.fn = "write_to_csv"
    /\ unit.ret.exc = ""
    /\ Len(unit.ret.writers["userattributes"].rows) = 2
    /\ Len(unit.ret.writers["experiments"].rows) = 3
    /\ Len(unit.ret.writers["sessions"].rows) = 1
    /\ Len(unit.ret.writers["events"].rows) = 4
    /\ Len(unit.ret.writers["eventparameters"].rows) = 3
    /\ Len(unit.ret.writers["states"].rows) = 0

\* C19: within a loader run the DELETE of the date's rows of a destination
\* table has completed when the load into that table starts, so it cannot take
\* effect after the load and remove the rows just loaded.
C19_DeleteCompletedBeforeLoad ==
    InStep("load") => tables[t] \notin deleteJobs

\* C20: two distinct data files of a date are never staged under the same
\* object name for a record type: after both have been staged, the output of
\* each of them is in the staging area for every record type.
C20_StagedNamesInjective ==
    unit.fn = "stage_files" =>
        \A n \in 1..2 : \A data_type \in Range(DATA_TYPES) :
            \E o \in unit.ret : o.dir = data_type /\ o.body = unit.files[n].id

\* C21: a loader run for the date changes only the date's partition of a
\* destination table, whether the table is created or appended to: the rows
\* of the other partitions are those the table had when the run started.
C21_OtherPartitionsUnchanged ==
    \A ty \in AllTypes : dest[ty].other = start.dest[ty].other

C21_Witness ==
    /\ pc = "done"
    /\ \E ty \in Range(tables) :
          /\ start.dest[ty].exists
          /\ start.dest[ty].other > 0
          /\ dest[ty].rows # start.dest[ty].rows

\* C22: the delete step does not fail when the destination holds no rows for
\* the date, the first run for a record type whose destination table does not
\* exist yet included.
C22_DeleteOnEmptyDoesNotFail ==
    ~(pc = "failed" /\ ph > 0 /\ Step = "delete")

\* C23: every output file that transform_data_file has opened is closed when
\* the function returns or raises, whatever the failure point.
C23_OpenedWritersClosed ==
    unit.fn = "transform_data_file" => unit.ret.opened \subseteq unit.ret.closed

\* C24: a row with a key that is not among the declared columns of its record
\* type does not make the transform fail: the writer drops the key and writes
\* the declared columns.
C24_UndeclaredKeyDropped ==
    (unit.fn = "transform_data_file" /\ unit.failure = NoFailure
        /\ unit.lines = <<JsonLine(SD1), JsonLine(SD2)>>)
        => /\ unit.ret.exc = ""
           /\ Len(unit.ret.writers["userattributes"].rows) = 3

\* C25: decomposing a session record without session identifier is a hard
\* error for every such record, also when its user attributes, experiments
\* and states are empty or absent; no session row with a null session id is
\* written.
C25_MissingSessionIdRaises ==
    (unit.fn = "write_to_csv" /\ "sessionId" \notin DOMAIN unit.session_data)
        => /\ unit.ret.exc # ""
           /\ unit.ret.writers["sessions"].rows = <<>>

C27_SessionRowRenamed ==
    unit.fn = "extract_session" =>
        \A c \in Range(unit.session_columns) :
            unit.ret[c] =
                LET source == IF c \in DOMAIN field_name_mappings
                                THEN field_name_mappings[c] ELSE c
                IN  IF source \in DOMAIN unit.session_data THEN unit.session_data[source]
                    ELSE IF c = "isDeveloper" THEN JBool(FALSE)
                    ELSE JNull

(* C28: in historical mode the poll loop is left only by a response that reports
   FINISHED, and then with the file list of that response (never with the list of
   an unfinished job), or by an exception of the request or the end of the
   process: no count of polls ends it; and once the vendor reports FINISHED the
   loop ends. *)
C28_PollLeftOnlyWhenFinished ==
    [][pc = "poll" /\ pc' # "poll" =>
          \/ /\ pc' = "save_delete"
             /\ unit'.response.state = FINISHED_STATE
             /\ keys' = unit'.response.files
             /\ keys' = vendorFiles
          \/ pc' = "failed" /\ err' = "HTTPError"
          \/ pc' = "crashed"]_vars

C28_PollTerminates == (pc = "poll") ~> (pc # "poll")

C28_PollReturnsFinishedFiles == C28_PollLeftOnlyWhenFinished /\ C28_PollTerminates

\* the job was found unfinished, with a part of the files listed, and the next
\* response was FINISHED
C28_Witness ==
    /\ pc = "save_delete"
    /\ polls = MaxPolls
    /\ unit = [fn |-> "get_files", response |-> FinishedResponse]
    /\ Len(keys) > 1

(* C29: a file staged for a prefix, version, date and record type is written at
   <prefix>/v<version>/<date>/<record type>/<name>, and of the external tables
   made for that prefix (any record type, version and date) exactly the one of the
   file's own record type, version and date reads it. *)
WithoutEndSlash(prefix) ==
    IF prefix # <<>> /\ prefix[Len(prefix)] = "/" THEN SubSeq(prefix, 1, Len(prefix) - 1)
    ELSE prefix

DirOf(prefix) == IF WithoutEndSlash(prefix) = <<>> THEN <<>> ELSE WithoutEndSlash(prefix) \o <<"/">>

C29_StagedWhereTheTableReads ==
    unit.fn = "write_to_gcs" =>
        /\ unit.ret = DirOf(unit.prefix) \o <<"v", unit.version, "/", unit.date, "/",
                                               unit.data_type, "/">> \o unit.name
        /\ \A version \in Versions, date \in Dates, ty \in Range(DATA_TYPES) :
              ReadsObject(source_uris(gcs_loc(Bucket, unit.prefix, version, date), ty),
                          ObjectUri(Bucket, unit.ret))
                  <=> (ty = unit.data_type /\ version = unit.version /\ date = unit.date)

\* the file of test_write_to_gcs_correct_path
C29_Witness ==
    /\ unit.fn = "write_to_gcs"
    /\ unit.ret = <<"firefox", "/", "v", "1", "/", "20200601", "/", "sessions", "/", "c">>
    /\ ReadsObject(source_uris(gcs_loc(Bucket, unit.prefix, "1", Date), "sessions"),
                   ObjectUri(Bucket, unit.ret))

(* C30: when a line of the file of a run cannot be JSON-decoded or decomposed,
   transform_data_file raises and the run fails there: every writer holds, first
   and unchanged, the rows of the lines before that line, no file of the key is
   staged, and no step of the loader has run (the destination tables are as they
   were when the run started). *)
WritersOf(schemas) == [data_type \in Range(DATA_TYPES) |-> DictWriter(schemas[data_type])]

LineIsBad(line, schemas) ==
    \/ ~line.json
    \/ write_to_csv(WritersOf(schemas), line.data, schemas).exc # ""

\* the number of the first line that cannot be decoded or decomposed, 0 if none
FirstBadLine(lines, schemas) ==
    IF \E n \in 1..Len(lines) : LineIsBad(lines[n], schemas)
      THEN CHOOSE n \in 1..Len(lines) :
               /\ LineIsBad(lines[n], schemas)
               /\ \A m \in 1..(n - 1) : ~LineIsBad(lines[m], schemas)
      ELSE 0

StartsWith(rows, first) ==
    /\ Len(rows) >= Len(first)
    /\ SubSeq(rows, 1, Len(first)) = first

\* the rows of the lines before the first bad one, written to new writers
RowsBefore(lines, schemas) ==
    read_lines(WritersOf(schemas), SubSeq(lines, 1, FirstBadLine(lines, schemas) - 1),
               schemas).writers

C30_BadLineAbortsTheRun ==
    (/\ unit.fn = "transform_data_file"
     /\ unit.failure = NoFailure
     /\ FirstBadLine(unit.lines, unit.schemas) > 0)
        => /\ pc = "failed"
           /\ unit.ret.exc \in {"JSONDecodeError", "ValueError", "KeyError"}
           /\ err = unit.ret.exc
           /\ \A data_type \in Range(DATA_TYPES) :
                 StartsWith(unit.ret.writers[data_type].rows,
                            RowsBefore(unit.lines, unit.schemas)[data_type].rows)
           /\ calls.stage = 0
           /\ ~\E o \in gcs : /\ o.date = Date
                               /\ \E data_type \in Range(DATA_TYPES) :
                                     o.name = csv_file_name(data_type, unit.key)
           /\ calls.loader = <<>>
           /\ dest = start.dest

\* the second of three lines is no JSON: the rows of the first line are in the
\* writers and the run has failed
C30_Witness ==
    /\ pc = "failed"
    /\ unit.fn = "transform_data_file"
    /\ unit.failure = NoFailure
    /\ FirstBadLine(unit.lines, unit.schemas) = 2
    /\ unit.ret.exc = "JSONDecodeError"
    /\ unit.ret.writers["sessions"].rows # <<>>
    /\ unit.ret.writers = RowsBefore(unit.lines, unit.schemas)

(* C32: when the source bucket holds no key under <prefix>/<date>/export-, the
   get_files of a streaming run returns no key and raises nothing, and the run
   goes on (to delete_gcs_prefix and a loop over no file). *)
C32_EmptyListingRunGoesOn ==
    [][(pc = "get_files" /\ Listing(s3) = <<>> /\ pc' # "crashed")
          => (pc' = "delete_prefix" /\ keys' = <<>> /\ err' = "")]_vars

(* C31: after a run has completed no external table remains; and an external
   table left by an earlier aborted run never makes a later run fail: creation
   never raises Conflict and teardown never raises NotFound. *)
C31_NoExternalTableAfterRun ==
    /\ pc = "done" => ext = {}
    /\ (pc = "failed" /\ ph > 0) =>
          /\ ~(Step = "create" /\ err = "Conflict")
          /\ ~(Step = "drop" /\ err = "NotFound")

(* C31, amended: after a run has completed no external table of the record types
   of that run remains, and the external tables of other record types are the
   ones that were there when the run started; creation never raises Conflict and
   teardown never raises NotFound. *)
C31_OwnExternalTablesDropped ==
    /\ pc = "done" => ext = start.ext \ Range(tables)
    /\ (pc = "failed" /\ ph > 0) =>
          /\ ~(Step = "create" /\ err = "Conflict")
          /\ ~(Step = "drop" /\ err = "NotFound")

\* a run that followed a failed one has completed: it found external tables of
\* its record types, made them anew and dropped them
C31_Witness ==
    /\ pc = "done"
    /\ start.prev = "failed"
    /\ start.ext \cap Range(tables) # {}
    /\ ext \cap Range(tables) = {}


====
